---- MODULE Spec2Model ----
(***************************************************************************)
(* Model of the cross-thread dispatch of torrent_handle                    *)
(* (src/src/torrent_handle.cpp): a handle wraps a weak_ptr<torrent>; the   *)
(* three call shapes async_call, sync_call and sync_call_ret upgrade it,   *)
(* hand a closure to the session's io_service with dispatch() and, for the *)
(* blocking shapes, wait on the session's mutex/condition pair.            *)
(***************************************************************************)
EXTENDS Integers, Sequences, FiniteSets, TLC

\* ---- bounds of the model ------------------------------------------------
MaxActors == 2      \* torrents ever added to the session
NumAddrs == 2       \* distinct heap addresses a torrent object may get
NumHandles == 2     \* torrent_handle objects in existence at one time
MaxCalls == 2       \* dispatches (async_call/sync_call/sync_call_ret) issued
MaxDepth == 2       \* nesting depth of handlers on the executor thread
MaxVal == 1         \* actor state values are 0..MaxVal
MaxInfos == 3       \* torrent_info objects ever created

\* the default that queue_position() passes to sync_call_ret
QueuePosDefault == -1

\* the number of slots of 'holder' in get_torrent_info
HolderSize == 4

Callers == {"c1", "c2"}        \* threads other than the io_service thread
Ex == "ex"                     \* the thread running io_service::run()
Threads == Callers \cup {Ex}
Actors == 1..MaxActors
Addrs == 1..NumAddrs
Handles == 1..NumHandles
Ids == 1..MaxCalls
Vals == 0..MaxVal
Args == 1..MaxVal              \* what callers pass to the setters
Slots == 0..(HolderSize - 1)   \* the indices of holder

VARIABLES
  strong,       \* strong[a]: use_count of the shared_ptr<torrent> of actor a
  owner,        \* owner[a]: the session still holds its shared_ptr to a
  addr,         \* addr[a]: heap address of the torrent object (0: never added)
  val,          \* val[a]: the actor's state (queue position, limit, ...)
  seen,         \* seen[a]: number of method invocations the actor has completed
  destroyedOn,  \* destroyedOn[a]: thread that ran ~torrent ("" while not run)
  handle,       \* handle[h]: the weak_ptr m_torrent: [cb: actor, ptr: address]
  seenInvalid,  \* seenInvalid[h]: an upgrade or is_valid() on h has failed
  queue,        \* io_service handler queue: call ids, oldest first
  stack,        \* handlers being executed on the executor thread, outermost first
  pc,           \* pc[c]: position of calling thread c
  cur,          \* cur[c]: id of the call thread c is inside (0: none)
  mut,          \* holder of ses.mut ("" when free)
  native,       \* native[c]: actor whose shared_ptr c got from native_handle()
  call,         \* call[id]: the frame of dispatch id (locals done, r) and its history
  nextId,       \* next unused call id
  aborted,      \* the process was terminated by a failed assertion
  tinfo,        \* the torrent_info the torrent holds now (0: none, or no torrent)
  nextInfo,     \* next unused torrent_info id
  holder,       \* get_torrent_info: static shared_ptr<const torrent_info> holder[4]
  cursor,       \* get_torrent_info: static int cursor
  holder_mutex, \* get_torrent_info: thread that holds holder_mutex ("" when free)
  gpc,          \* gpc[c]: position of thread c inside get_torrent_info
  r,            \* r[c]: the local shared_ptr r of get_torrent_info on thread c (0: empty)
  recent        \* results of the latest get_torrent_info calls, in the order of
                \* their stores under holder_mutex, oldest first

actorVars == <<strong, owner, addr, val, seen, destroyedOn>>
handleVars == <<handle, seenInvalid>>
execVars == <<queue, stack>>
threadVars == <<pc, cur, mut, native>>
callVars == <<call, nextId>>
infoVars == <<tinfo, nextInfo, holder, cursor, holder_mutex, gpc, r, recent>>
coreVars == <<strong, owner, addr, val, seen, destroyedOn, handle, seenInvalid, queue,
              stack, pc, cur, mut, native, call, nextId, aborted>>
vars == <<strong, owner, addr, val, seen, destroyedOn, handle, seenInvalid, queue,
          stack, pc, cur, mut, native, call, nextId, aborted,
          tinfo, nextInfo, holder, cursor, holder_mutex, gpc, r, recent>>

NoHandle == [cb |-> 0, ptr |-> 0]

\* an unused call slot. cb is the actor the handle denotes and actor the torrent
\* lock() gave (0: none); -2 stands for "no value" in def, r, xval (what the
\* method returned when it ran) and rv (what the call returned to its caller).
\* byref: the closure holds a std::ref to the caller's argument object instead
\* of a copy; obj: what that object holds now (-2 once it is destroyed, and for
\* the calls without one); got: the argument the method was called with
NoCall == [kind |-> "none", th |-> "", cb |-> 0, actor |-> 0, arg |-> 0, def |-> -2,
           done |-> FALSE, r |-> -2, runs |-> 0, fin |-> FALSE,
           xval |-> -2, returned |-> FALSE, rv |-> -2,
           byref |-> FALSE, obj |-> -2, got |-> -2]

\* nothing has been dispatched and no thread is inside a handle operation
Quiet ==
  /\ val = [a \in Actors |-> 0]
  /\ seen = [a \in Actors |-> 0]
  /\ destroyedOn = [a \in Actors |-> ""]
  /\ seenInvalid = [h \in Handles |-> FALSE]
  /\ queue = <<>>
  /\ stack = <<>>
  /\ pc = [c \in Callers |-> "idle"]
  /\ cur = [c \in Callers |-> 0]
  /\ mut = ""
  /\ native = [c \in Callers |-> 0]
  /\ call = [i \in Ids |-> NoCall]
  /\ nextId = 1
  /\ aborted = FALSE
  /\ tinfo = 1
  /\ nextInfo = 2
  /\ holder = [k \in Slots |-> 0]
  /\ cursor = 0
  /\ holder_mutex = ""
  /\ gpc = [c \in Callers |-> "idle"]
  /\ r = [c \in Callers |-> 0]
  /\ recent = <<>>

\* a session to which one torrent was added, add_torrent having returned the
\* first handle
Init ==
  /\ Quiet
  /\ strong = [a \in Actors |-> IF a = 1 THEN 1 ELSE 0]
  /\ owner = [a \in Actors |-> a = 1]
  /\ addr = [a \in Actors |-> IF a = 1 THEN 1 ELSE 0]
  /\ handle = [h \in Handles |-> IF h = 1 THEN [cb |-> 1, ptr |-> 1] ELSE NoHandle]

\* a session without torrents and without handles
EmptyInit ==
  /\ Quiet
  /\ strong = [a \in Actors |-> 0]
  /\ owner = [a \in Actors |-> FALSE]
  /\ addr = [a \in Actors |-> 0]
  /\ handle = [h \in Handles |-> NoHandle]

\* ---- shared_ptr / weak_ptr ----------------------------------------------

\* the torrent object of actor a has been constructed and not destructed
Alive(a) == addr[a] # 0 /\ destroyedOn[a] = ""

\* weak_ptr::expired()
expired(h) == handle[h].cb = 0 \/ strong[handle[h].cb] = 0

\* lock() as it would be if the handle kept a pointer it never checks for expiry
lock_unchecked(h) == handle[h].cb

\* weak_ptr::lock(): the actor a strong reference was obtained for, 0 if none
lock(h) == IF expired(h) THEN 0 ELSE handle[h].cb

\* use_count after n copies of a shared_ptr to a were made
Acquire(s, a, n) == [s EXCEPT ![a] = @ + n]

\* n shared_ptrs to a are destroyed by thread th: the one that takes
\* use_count to zero runs ~torrent
Release(a, n, th) ==
  /\ strong' = [strong EXCEPT ![a] = @ - n]
  /\ destroyedOn' = IF strong[a] > 0 /\ strong[a] - n <= 0
                    THEN [destroyedOn EXCEPT ![a] = th] ELSE destroyedOn

\* ---- the session adds and removes torrents (on the executor thread) ------

AddTorrent(a, p) ==
  /\ ~aborted /\ stack = <<>>
  /\ addr[a] = 0 /\ \A b \in Actors : b < a => addr[b] # 0
  /\ \A b \in Actors : Alive(b) => addr[b] # p
  /\ addr' = [addr EXCEPT ![a] = p]
  /\ strong' = [strong EXCEPT ![a] = 1]
  /\ owner' = [owner EXCEPT ![a] = TRUE]
  /\ UNCHANGED <<val, seen, destroyedOn, handleVars, execVars, threadVars, callVars, aborted, infoVars>>

RemoveTorrent(a) ==
  /\ ~aborted /\ stack = <<>>
  /\ owner[a]
  /\ owner' = [owner EXCEPT ![a] = FALSE]
  /\ Release(a, 1, Ex)
  /\ UNCHANGED <<addr, val, seen, handleVars, execVars, threadVars, callVars, aborted, infoVars>>

\* ---- handles --------------------------------------------------------------

\* torrent::get_handle(): a new handle from the actor's shared_from_this()
MakeHandle(h, a) ==
  /\ ~aborted
  /\ handle[h] = NoHandle /\ Alive(a) /\ strong[a] > 0
  /\ handle' = [handle EXCEPT ![h] = [cb |-> a, ptr |-> addr[a]]]
  /\ UNCHANGED <<seenInvalid, actorVars, execVars, threadVars, callVars, aborted, infoVars>>

\* copy construction of a torrent_handle: copies the weak_ptr
CopyHandle(h, g) ==
  /\ ~aborted
  /\ handle[h] # NoHandle /\ handle[g] = NoHandle
  /\ handle' = [handle EXCEPT ![g] = handle[h]]
  /\ UNCHANGED <<seenInvalid, actorVars, execVars, threadVars, callVars, aborted, infoVars>>

DropHandle(h) ==
  /\ ~aborted
  /\ handle[h] # NoHandle
  /\ handle' = [handle EXCEPT ![h] = NoHandle]
  /\ seenInvalid' = [seenInvalid EXCEPT ![h] = FALSE]
  /\ UNCHANGED <<actorVars, execVars, threadVars, callVars, aborted, infoVars>>

\* is_valid() testing that the handle was ever set instead of its expiry
is_valid_nonempty(h) == handle[h] # NoHandle

\* torrent_handle::is_valid()
is_valid(h) == ~expired(h)

IsValidCall(h) ==
  /\ ~aborted
  /\ handle[h] # NoHandle
  /\ seenInvalid' = [seenInvalid EXCEPT ![h] = @ \/ ~is_valid(h)]
  /\ UNCHANGED <<handle, actorVars, execVars, threadVars, callVars, aborted, infoVars>>

\* hash_value(th): the first pointer-sized word of the weak_ptr m_torrent. In
\* the layouts of libstdc++, libc++, MSVC and boost that word is the stored
\* pointer, the address of the torrent object; it is copied with the handle
\* and never updated.
hash_value(h) == handle[h].ptr

\* a native_handle() that gives out the torrent without taking a reference
native_handle_raw(c, h) ==
  /\ ~aborted
  /\ handle[h] # NoHandle /\ native[c] = 0
  /\ native' = [native EXCEPT ![c] = lock(h)]
  /\ seenInvalid' = [seenInvalid EXCEPT ![h] = @ \/ lock(h) = 0]
  /\ UNCHANGED <<actorVars, handle, execVars, pc, cur, mut, callVars, aborted, infoVars>>

\* torrent_handle::native_handle(): the caller keeps the shared_ptr in native[c]
native_handle(c, h) ==
  /\ ~aborted
  /\ handle[h] # NoHandle /\ native[c] = 0
  /\ LET t == lock(h) IN
     /\ native' = [native EXCEPT ![c] = t]
     /\ strong' = IF t = 0 THEN strong ELSE Acquire(strong, t, 1)
     /\ seenInvalid' = [seenInvalid EXCEPT ![h] = @ \/ t = 0]
  /\ UNCHANGED <<owner, addr, val, seen, destroyedOn, handle, execVars, pc, cur, mut,
                 callVars, aborted, infoVars>>

\* the caller drops the shared_ptr it got from native_handle()
DropNative(c) ==
  /\ ~aborted
  /\ native[c] # 0
  /\ native' = [native EXCEPT ![c] = 0]
  /\ Release(native[c], 1, c)
  /\ UNCHANGED <<owner, addr, val, seen, handleVars, execVars, pc, cur, mut, callVars, aborted, infoVars>>

\* ---- the three call shapes -------------------------------------------------

\* thread th is at a point where it can start a handle operation: a calling
\* thread that is not inside one, or the executor thread inside a running method
CanCall(th) ==
  IF th = Ex
  THEN /\ stack # <<>>
       /\ stack[Len(stack)].phase = "method"
       /\ Len(stack) < MaxDepth
  ELSE pc[th] = "idle"

\* TORRENT_ASSERT_PRECOND(t): the possible values of 'aborted' afterwards. A
\* build with assertions terminates the process on a null t, a build without
\* them goes on to the 'if (!t) return'.
precond(t) == IF t = 0 THEN {TRUE, FALSE} ELSE {FALSE}

\* a closure that captures the raw pointer t.get() holds no reference
ClosureHolds_raw(t) == 0

\* the actor the closure '[=] () { (t.get()->*f)(a...); }' keeps a strong
\* reference to: it captures the shared_ptr t by copy
ClosureHolds(t) == t

Captured(t) == IF ClosureHolds(t) = 0 THEN 0 ELSE 1

\* the handler is always called directly by the thread that dispatches it
RunsInline_always(th) == TRUE

\* the handler is queued whichever thread dispatches it, as post() does
RunsInline_never(th) == FALSE

\* io_service::dispatch runs the handler inside the call when the calling
\* thread is the one running the io_service, and queues it otherwise
RunsInline(th) == th = Ex

\* the method is entered once for the handler of call c
Invoke(c) == [c EXCEPT !.runs = @ + 1]

\* a dispatch that hands the handler to the io_service twice
dispatch_twice(th, id, c) ==
  IF RunsInline(th)
  THEN /\ stack' = Append(stack, [id |-> id, inline |-> TRUE, phase |-> "method"])
       /\ queue' = queue
       /\ call' = [call EXCEPT ![id] = Invoke(c)]
  ELSE /\ queue' = queue \o <<id, id>>
       /\ stack' = stack
       /\ call' = [call EXCEPT ![id] = c]

\* a dispatch that puts the handler in front of the handlers already queued
dispatch_front(th, id, c) ==
  IF RunsInline(th)
  THEN /\ stack' = Append(stack, [id |-> id, inline |-> TRUE, phase |-> "method"])
       /\ queue' = queue
       /\ call' = [call EXCEPT ![id] = Invoke(c)]
  ELSE /\ queue' = <<id>> \o queue
       /\ stack' = stack
       /\ call' = [call EXCEPT ![id] = c]

\* 'ses.get_io_service().dispatch(handler)'
dispatch(th, id, c) ==
  IF RunsInline(th)
  THEN /\ stack' = Append(stack, [id |-> id, inline |-> TRUE, phase |-> "method"])
       /\ queue' = queue
       /\ call' = [call EXCEPT ![id] = Invoke(c)]
  ELSE /\ queue' = Append(queue, id)
       /\ stack' = stack
       /\ call' = [call EXCEPT ![id] = c]

\* a frame whose result slot is value-initialised instead of set to def
NewCall_noinit(kind, th, h, t, arg, def) ==
  [NoCall EXCEPT !.kind = kind, !.th = th, !.cb = handle[h].cb, !.actor = t,
                 !.arg = arg, !.def = def, !.r = 0, !.done = FALSE]

\* the frame of a new call: 'Ret r = def' and 'bool done = false'
NewCall(kind, th, h, t, arg, def) ==
  [NoCall EXCEPT !.kind = kind, !.th = th, !.cb = handle[h].cb, !.actor = t,
                 !.arg = arg, !.def = def, !.r = def, !.done = FALSE]

\* the path of all three functions when lock() gave no torrent
DeadPath(c, id, h) ==
  /\ \E ab \in precond(0) :
       /\ aborted' = ab
       /\ call' = [call EXCEPT ![id] = [c EXCEPT !.returned = ~ab,
                                                 !.rv = IF ab THEN @ ELSE c.r]]
  /\ seenInvalid' = [seenInvalid EXCEPT ![h] = TRUE]
  /\ UNCHANGED <<handle, actorVars, execVars, threadVars, infoVars>>

\* the path of all three functions once lock() gave the torrent t
LivePath(c, id, th, t, next) ==
  /\ aborted' \in precond(t)
  /\ strong' = Acquire(strong, t, 1 + Captured(t))
  /\ dispatch(th, id, c)
  /\ IF th \in Callers
     THEN /\ pc' = [pc EXCEPT ![th] = next]
          /\ cur' = [cur EXCEPT ![th] = id]
     ELSE UNCHANGED <<pc, cur>>
  /\ UNCHANGED <<owner, addr, val, seen, destroyedOn, handleVars, mut, native, infoVars>>

\* an async_call that waits for its handler the way sync_call does
async_call_wait(th, h, arg) ==
  /\ ~aborted /\ CanCall(th) /\ nextId <= MaxCalls /\ handle[h] # NoHandle
  /\ nextId' = nextId + 1
  /\ LET t == lock(h)
         c == NewCall("async", th, h, t, arg, -2)
     IN IF t = 0 THEN DeadPath(c, nextId, h)
                 ELSE LivePath(c, nextId, th, t, "waitlock")

\* torrent_handle::async_call(f, a...), f being a setter called with arg
async_call(th, h, arg) ==
  /\ ~aborted /\ CanCall(th) /\ nextId <= MaxCalls /\ handle[h] # NoHandle
  /\ nextId' = nextId + 1
  /\ LET t == lock(h)
         c == NewCall("async", th, h, t, arg, -2)
     IN IF t = 0 THEN DeadPath(c, nextId, h)
                 ELSE LivePath(c, nextId, th, t, "aret")

\* torrent_handle::sync_call(f, a...), f being a setter called with arg
sync_call(th, h, arg) ==
  /\ ~aborted /\ CanCall(th) /\ nextId <= MaxCalls /\ handle[h] # NoHandle
  /\ nextId' = nextId + 1
  /\ LET t == lock(h)
         c == NewCall("sync", th, h, t, arg, -2)
     IN IF t = 0 THEN DeadPath(c, nextId, h)
                 ELSE LivePath(c, nextId, th, t, "waitlock")

\* torrent_handle::sync_call_ret(def, f), f being a getter of the actor's state
sync_call_ret(th, h, def) ==
  /\ ~aborted /\ CanCall(th) /\ nextId <= MaxCalls /\ handle[h] # NoHandle
  /\ nextId' = nextId + 1
  /\ LET t == lock(h)
         c == NewCall("sync_ret", th, h, t, 0, def)
     IN IF t = 0 THEN DeadPath(c, nextId, h)
                 ELSE LivePath(c, nextId, th, t, "waitlock")

\* torrent_handle::filter_files(files): async_call is given std::ref(files), and
\* its closure copies the reference_wrapper, not the vector
filter_files(th, h, files) ==
  /\ ~aborted /\ CanCall(th) /\ nextId <= MaxCalls /\ handle[h] # NoHandle
  /\ nextId' = nextId + 1
  /\ LET t == lock(h)
         c == [NewCall("async", th, h, t, files, -2) EXCEPT !.byref = TRUE, !.obj = files]
     IN IF t = 0 THEN DeadPath(c, nextId, h)
                 ELSE LivePath(c, nextId, th, t, "aret")

\* the caller of filter_files assigns to its vector after the call has returned
ChangeArg(c, id, v) ==
  /\ ~aborted /\ pc[c] = "idle"
  /\ call[id].th = c /\ call[id].byref /\ call[id].returned
  /\ call[id].obj \notin {-2, v}
  /\ call' = [call EXCEPT ![id].obj = v]
  /\ UNCHANGED <<actorVars, handleVars, execVars, threadVars, nextId, aborted, infoVars>>

\* the caller's vector goes out of scope after the call has returned
DestroyArg(c, id) ==
  /\ ~aborted /\ pc[c] = "idle"
  /\ call[id].th = c /\ call[id].byref /\ call[id].returned
  /\ call[id].obj # -2
  /\ call' = [call EXCEPT ![id].obj = -2]
  /\ UNCHANGED <<actorVars, handleVars, execVars, threadVars, nextId, aborted, infoVars>>

\* torrent_handle::queue_position()
queue_position(th, h) == sync_call_ret(th, h, QueuePosDefault)

\* torrent_handle::max_uploads()
max_uploads(th, h) == sync_call_ret(th, h, 0)

\* the operations that lock() the handle and then use the torrent on the
\* calling thread itself, without a dispatch: with no torrent they return an
\* empty result (0 here), and they assert nothing
DirectRead(kind, c, h) ==
  /\ ~aborted /\ pc[c] = "idle" /\ nextId <= MaxCalls /\ handle[h] # NoHandle
  /\ nextId' = nextId + 1
  /\ LET t == lock(h)
         f == [NoCall EXCEPT !.kind = kind, !.th = c, !.cb = handle[h].cb, !.actor = t,
                             !.def = 0, !.r = 0]
     IN IF t = 0
        THEN /\ call' = [call EXCEPT ![nextId] = [f EXCEPT !.returned = TRUE, !.rv = 0]]
             /\ seenInvalid' = [seenInvalid EXCEPT ![h] = TRUE]
             /\ UNCHANGED <<handle, actorVars, threadVars>>
        ELSE /\ call' = [call EXCEPT ![nextId] = f]
             /\ strong' = Acquire(strong, t, 1)
             /\ pc' = [pc EXCEPT ![c] = "reading"]
             /\ cur' = [cur EXCEPT ![c] = nextId]
             /\ UNCHANGED <<owner, addr, val, seen, destroyedOn, handleVars, mut, native>>
  /\ UNCHANGED <<execVars, aborted, infoVars>>

\* torrent_handle::info_hash(): 'return t->info_hash()'
info_hash(c, h) == DirectRead("info_hash", c, h)

\* torrent_handle::file_status(): 't->has_storage()' and '&t->storage()'
file_status(c, h) == DirectRead("file_status", c, h)

\* the read of the torrent is done and the operation returns what it read; its
\* local t is destroyed
DirectReturn(c) ==
  /\ ~aborted /\ pc[c] = "reading"
  /\ pc' = [pc EXCEPT ![c] = "idle"]
  /\ cur' = [cur EXCEPT ![c] = 0]
  /\ call' = [call EXCEPT ![cur[c]].returned = TRUE,
                          ![cur[c]].rv = val[call[cur[c]].actor]]
  /\ Release(call[cur[c]].actor, 1, c)
  /\ UNCHANGED <<owner, addr, val, seen, handleVars, execVars, mut, native, nextId, aborted, infoVars>>

\* async_call returns on a calling thread: its local t is destroyed
AsyncReturn(c) ==
  /\ ~aborted /\ pc[c] = "aret"
  /\ pc' = [pc EXCEPT ![c] = "idle"]
  /\ cur' = [cur EXCEPT ![c] = 0]
  /\ call' = [call EXCEPT ![cur[c]].returned = TRUE]
  /\ Release(call[cur[c]].actor, 1, c)
  /\ UNCHANGED <<owner, addr, val, seen, handleVars, execVars, mut, native, nextId, aborted, infoVars>>

\* ---- the executor thread: io_service::run() -------------------------------

Top == stack[Len(stack)]
Pop == SubSeq(stack, 1, Len(stack) - 1)
SetPhase(ph) == [stack EXCEPT ![Len(stack)].phase = ph]

\* the executor takes the oldest queued handler and enters its method
RunTask ==
  /\ ~aborted /\ stack = <<>> /\ queue # <<>>
  /\ stack' = <<[id |-> Head(queue), inline |-> FALSE, phase |-> "method"]>>
  /\ queue' = Tail(queue)
  /\ call' = [call EXCEPT ![Head(queue)] = Invoke(@)]
  /\ UNCHANGED <<actorVars, handleVars, threadVars, nextId, aborted, infoVars>>

\* '(t.get()->*f)(a...)': the arguments the method can be called with. A copied
\* argument is the value given at dispatch; a reference_wrapper is read when
\* the handler runs, and reading a destroyed vector can give anything
Received(c) ==
  IF ~c.byref THEN {c.arg}
  ELSE IF c.obj = -2 THEN Vals
  ELSE {c.obj}

\* what the method does to the actor's state: the setters store the argument
\* g they were called with
MethodEffect(c, g, v) == IF c.kind = "sync_ret" THEN v ELSE g

\* a handler that calls the method without assigning its result to r
StoreResult_drop(c, x) == c.r

\* 'r = (t.get()->*f)(a...)': the value left in the caller's slot r
StoreResult(c, x) == IF c.kind = "sync_ret" THEN x ELSE c.r

\* '(t.get()->*f)(a...)' returns. The handler of async_call is finished and
\* destroyed with it; the handlers of the blocking calls go on to signal.
MethodReturn ==
  /\ ~aborted /\ stack # <<>> /\ Top.phase = "method"
  /\ LET id == Top.id
         c == call[id]
         a == c.actor
         x == val[a]
     IN /\ \E g \in Received(c) :
             /\ val' = [val EXCEPT ![a] = MethodEffect(c, g, @)]
             /\ call' = [call EXCEPT ![id] =
                           [c EXCEPT !.fin = TRUE, !.xval = x, !.r = StoreResult(c, x),
                                     !.got = g,
                                     !.returned = @ \/ (c.kind = "async" /\ Top.inline)]]
        /\ seen' = [seen EXCEPT ![a] = @ + 1]
        /\ IF c.kind = "async"
           THEN /\ stack' = Pop
                /\ Release(a, Captured(a) + (IF Top.inline THEN 1 ELSE 0), Ex)
           ELSE /\ stack' = SetPhase("signal")
                /\ UNCHANGED <<strong, destroyedOn>>
  /\ UNCHANGED <<owner, addr, handleVars, queue, threadVars, nextId, aborted, infoVars>>

\* the method reads through a reference to a vector that no longer exists and
\* the process dies of it
MethodCrash ==
  /\ ~aborted /\ stack # <<>> /\ Top.phase = "method"
  /\ call[Top.id].byref /\ call[Top.id].obj = -2
  /\ aborted' = TRUE
  /\ UNCHANGED <<actorVars, handleVars, execVars, threadVars, callVars, infoVars>>

\* notify_one() in place of notify_all(): a single waiting thread is woken
notify_one(p) ==
  IF \E c \in Callers : p[c] = "sleeping"
  THEN [p EXCEPT ![CHOOSE c \in Callers : p[c] = "sleeping"] = "waitlock"]
  ELSE p

\* ses.cond.notify_all(): every thread waiting on the condition is made runnable
notify_all(p) == [c \in Callers |-> IF p[c] = "sleeping" THEN "waitlock" ELSE p[c]]

\* a handler that sets done before it calls the method
CanSignal_early(f) == f.phase \in {"method", "signal"}

\* the handler may set done once its method has returned
CanSignal(f) == f.phase = "signal"

\* a handler that sets done and notifies without taking ses.mut
TaskSignal_nolock ==
  /\ ~aborted /\ stack # <<>> /\ CanSignal(Top)
  /\ call' = [call EXCEPT ![Top.id].done = TRUE]
  /\ pc' = notify_all(pc)
  /\ stack' = SetPhase(IF Top.inline THEN "wait" ELSE "end")
  /\ UNCHANGED <<actorVars, handleVars, queue, cur, mut, native, nextId, aborted, infoVars>>

\* 'unique_lock l(ses.mut); done = true; ses.cond.notify_all();' and the unlock
\* at the end of the handler's scope
TaskSignal ==
  /\ ~aborted /\ stack # <<>> /\ CanSignal(Top)
  /\ mut = ""
  /\ call' = [call EXCEPT ![Top.id].done = TRUE]
  /\ pc' = notify_all(pc)
  /\ stack' = SetPhase(IF Top.inline THEN "wait" ELSE "end")
  /\ UNCHANGED <<actorVars, handleVars, queue, cur, mut, native, nextId, aborted, infoVars>>

\* the io_service destroys the finished handler and the shared_ptr it captured
TaskEnd ==
  /\ ~aborted /\ stack # <<>> /\ Top.phase = "end"
  /\ stack' = Pop
  /\ Release(call[Top.id].actor, Captured(call[Top.id].actor), Ex)
  /\ UNCHANGED <<owner, addr, val, seen, handleVars, queue, threadVars, callVars, aborted, infoVars>>

\* ---- aux::torrent_wait(done, ses) ------------------------------------------

\* 'std::unique_lock<std::mutex> l(ses.mut)'
WaitLock(c) ==
  /\ ~aborted /\ pc[c] = "waitlock" /\ mut = ""
  /\ mut' = c
  /\ pc' = [pc EXCEPT ![c] = "locked"]
  /\ UNCHANGED <<actorVars, handleVars, execVars, cur, native, callVars, aborted, infoVars>>

\* 'while (!done) ses.cond.wait(l)': with done set the call returns (the lock
\* and the local t are destroyed, r is the result), otherwise the thread
\* releases the mutex and sleeps on the condition
WaitCheck(c) ==
  /\ ~aborted /\ pc[c] = "locked"
  /\ mut' = ""
  /\ IF call[cur[c]].done
     THEN /\ pc' = [pc EXCEPT ![c] = "idle"]
          /\ cur' = [cur EXCEPT ![c] = 0]
          /\ call' = [call EXCEPT ![cur[c]].returned = TRUE,
                                  ![cur[c]].rv = call[cur[c]].r]
          /\ Release(call[cur[c]].actor, 1, c)
     ELSE /\ pc' = [pc EXCEPT ![c] = "sleeping"]
          /\ UNCHANGED <<cur, call, strong, destroyedOn>>
  /\ UNCHANGED <<owner, addr, val, seen, handleVars, execVars, native, nextId, aborted, infoVars>>

\* condition_variable::wait may return without a notification
SpuriousWake(c) ==
  /\ ~aborted /\ pc[c] = "sleeping"
  /\ pc' = [pc EXCEPT ![c] = "waitlock"]
  /\ UNCHANGED <<actorVars, handleVars, execVars, cur, mut, native, callVars, aborted, infoVars>>

\* torrent_wait on the executor thread, after the handler ran inside dispatch:
\* it takes the mutex, finds done set and the blocking call returns
InlineReturn ==
  /\ ~aborted /\ stack # <<>> /\ Top.phase = "wait"
  /\ mut = "" /\ call[Top.id].done
  /\ stack' = Pop
  /\ call' = [call EXCEPT ![Top.id].returned = TRUE, ![Top.id].rv = call[Top.id].r]
  /\ Release(call[Top.id].actor, 1 + Captured(call[Top.id].actor), Ex)
  /\ UNCHANGED <<owner, addr, val, seen, handleVars, queue, threadVars, nextId, aborted, infoVars>>

\* ---- torrent_handle::get_torrent_info() --------------------------------------

\* the torrent gets a new torrent_info object (its metadata is set or replaced)
SetInfo ==
  /\ ~aborted /\ nextInfo <= MaxInfos
  /\ tinfo' = nextInfo
  /\ nextInfo' = nextInfo + 1
  /\ UNCHANGED <<coreVars, holder, cursor, holder_mutex, gpc, r, recent>>

\* the torrent gives up its torrent_info, or is destroyed with it
DropInfo ==
  /\ ~aborted /\ tinfo # 0
  /\ tinfo' = 0
  /\ UNCHANGED <<coreVars, nextInfo, holder, cursor, holder_mutex, gpc, r, recent>>

\* torrent_handle::torrent_file(): the torrent's shared_ptr<const torrent_info>,
\* or the empty default of sync_call_ret when there is none to give
torrent_file == tinfo

\* 'std::shared_ptr<const torrent_info> r = torrent_file()'
GtiCall(c) ==
  /\ ~aborted /\ gpc[c] = "idle"
  /\ r' = [r EXCEPT ![c] = torrent_file]
  /\ gpc' = [gpc EXCEPT ![c] = "have_r"]
  /\ UNCHANGED <<coreVars, tinfo, nextInfo, holder, cursor, holder_mutex, recent>>

\* 'std::lock_guard<std::mutex> l(holder_mutex)'
GtiLock(c) ==
  /\ ~aborted /\ gpc[c] = "have_r" /\ holder_mutex = ""
  /\ holder_mutex' = c
  /\ gpc' = [gpc EXCEPT ![c] = "locked"]
  /\ UNCHANGED <<coreVars, tinfo, nextInfo, holder, cursor, r, recent>>

\* the latest HolderSize entries of a sequence
LastStored(q) == IF Len(q) <= HolderSize THEN q ELSE SubSeq(q, Len(q) - HolderSize + 1, Len(q))

\* 'holder[cursor++] = r'. A store past the end of the array is undefined; it
\* leaves the four slots as they are here
GtiStore(c) ==
  /\ ~aborted /\ gpc[c] = "locked"
  /\ holder' = IF cursor \in Slots THEN [holder EXCEPT ![cursor] = r[c]] ELSE holder
  /\ cursor' = cursor + 1
  /\ recent' = LastStored(Append(recent, r[c]))
  /\ gpc' = [gpc EXCEPT ![c] = "stored"]
  /\ UNCHANGED <<coreVars, tinfo, nextInfo, holder_mutex, r>>

\* a get_torrent_info that leaves cursor as the increment made it
GtiWrap_skip(c) ==
  /\ ~aborted /\ gpc[c] = "stored"
  /\ gpc' = [gpc EXCEPT ![c] = "wrapped"]
  /\ UNCHANGED <<coreVars, tinfo, nextInfo, holder, cursor, holder_mutex, r, recent>>

\* 'cursor = cursor % (sizeof(holder) / sizeof(holder[0]))'
GtiWrap(c) ==
  /\ ~aborted /\ gpc[c] = "stored"
  /\ cursor' = cursor % HolderSize
  /\ gpc' = [gpc EXCEPT ![c] = "wrapped"]
  /\ UNCHANGED <<coreVars, tinfo, nextInfo, holder, holder_mutex, r, recent>>

\* 'return *r': the guard l and the local r are destroyed. With an empty r the
\* dereference is undefined: the process dies of it or goes on with a reference
\* to nothing
GtiReturn(c) ==
  /\ ~aborted /\ gpc[c] = "wrapped"
  /\ aborted' \in (IF r[c] = 0 THEN {TRUE, FALSE} ELSE {FALSE})
  /\ holder_mutex' = ""
  /\ r' = [r EXCEPT ![c] = 0]
  /\ gpc' = [gpc EXCEPT ![c] = "idle"]
  /\ UNCHANGED <<actorVars, handleVars, execVars, threadVars, callVars,
                 tinfo, nextInfo, holder, cursor, recent>>

\* ---- the program -----------------------------------------------------------

\* handle operations that make no dispatch
HandleOps ==
  \/ \E h \in Handles : IsValidCall(h)
  \/ \E c \in Callers, h \in Handles : native_handle(c, h)
  \/ \E c \in Callers : DropNative(c)

Calls ==
  \/ \E th \in Threads, h \in Handles, v \in Args : async_call(th, h, v)
  \/ \E th \in Threads, h \in Handles, v \in Args : sync_call(th, h, v)
  \/ \E th \in Threads, h \in Handles : queue_position(th, h)
  \/ \E th \in Threads, h \in Handles : max_uploads(th, h)
  \/ \E c \in Callers : AsyncReturn(c)

Executor ==
  \/ RunTask
  \/ MethodReturn
  \/ TaskSignal
  \/ TaskEnd
  \/ InlineReturn

Waits ==
  \/ \E c \in Callers : WaitLock(c)
  \/ \E c \in Callers : WaitCheck(c)
  \/ \E c \in Callers : SpuriousWake(c)

Next ==
  \/ \E a \in Actors : RemoveTorrent(a)
  \/ \E h \in Handles : DropHandle(h)
  \/ Calls
  \/ Executor
  \/ Waits

Spec == Init /\ [][Next]_vars

\* blocking calls only, from any thread, while the session may remove the torrent
LiveNext ==
  \/ \E a \in Actors : RemoveTorrent(a)
  \/ \E th \in Threads, h \in Handles, v \in Args : sync_call(th, h, v)
  \/ \E th \in Threads, h \in Handles : queue_position(th, h)
  \/ Executor
  \/ Waits

\* io_service::run() keeps executing handlers, a thread that is runnable is
\* eventually scheduled, and a thread trying to take ses.mut gets it when the
\* mutex keeps being released
Fairness ==
  /\ WF_vars(RunTask)
  /\ WF_vars(MethodReturn)
  /\ SF_vars(TaskSignal)
  /\ WF_vars(TaskEnd)
  /\ SF_vars(InlineReturn)
  /\ \A c \in Callers : SF_vars(WaitLock(c)) /\ WF_vars(WaitCheck(c))

LiveSpec == Init /\ [][LiveNext]_vars /\ Fairness

\* torrents come and go and handles are made, copied, tested and dropped
IdNext ==
  \/ \E a \in Actors, p \in Addrs : AddTorrent(a, p)
  \/ \E a \in Actors : RemoveTorrent(a)
  \/ \E h \in Handles, a \in Actors : MakeHandle(h, a)
  \/ \E h \in Handles, g \in Handles : CopyHandle(h, g)
  \/ \E h \in Handles : DropHandle(h)
  \/ HandleOps

IdSpec == EmptyInit /\ [][IdNext]_vars

\* fire-and-forget calls, validity tests and native_handle() on the handle of a
\* torrent that the session may remove
ValidNext ==
  \/ \E a \in Actors : RemoveTorrent(a)
  \/ HandleOps
  \/ \E th \in Threads, h \in Handles, v \in Args : async_call(th, h, v)
  \/ \E c \in Callers : AsyncReturn(c)
  \/ RunTask
  \/ MethodReturn

ValidSpec == Init /\ [][ValidNext]_vars

\* fire-and-forget calls with a copied argument and with a referenced one,
\* whose callers go on to change or destroy what they passed
ArgNext ==
  \/ \E th \in Threads, h \in Handles, v \in Args : async_call(th, h, v)
  \/ \E th \in Threads, h \in Handles, v \in Args : filter_files(th, h, v)
  \/ \E c \in Callers : AsyncReturn(c)
  \/ \E c \in Callers, i \in Ids, v \in Vals : ChangeArg(c, i, v)
  \/ \E c \in Callers, i \in Ids : DestroyArg(c, i)
  \/ RunTask
  \/ MethodReturn
  \/ MethodCrash

ArgSpec == Init /\ [][ArgNext]_vars

\* reads made on the calling thread next to fire-and-forget calls that the
\* executor runs, on a torrent that the session may remove
AccessNext ==
  \/ \E a \in Actors : RemoveTorrent(a)
  \/ \E c \in Callers, h \in Handles : info_hash(c, h)
  \/ \E c \in Callers, h \in Handles : file_status(c, h)
  \/ \E c \in Callers : DirectReturn(c)
  \/ \E th \in Threads, h \in Handles, v \in Args : async_call(th, h, v)
  \/ \E c \in Callers : AsyncReturn(c)
  \/ RunTask
  \/ MethodReturn

AccessSpec == Init /\ [][AccessNext]_vars

\* get_torrent_info called from several threads while the torrent's
\* torrent_info is replaced and dropped
InfoNext ==
  \/ SetInfo
  \/ DropInfo
  \/ \E c \in Callers : GtiCall(c)
  \/ \E c \in Callers : GtiLock(c)
  \/ \E c \in Callers : GtiStore(c)
  \/ \E c \in Callers : GtiWrap(c)
  \/ \E c \in Callers : GtiReturn(c)

InfoSpec == Init /\ [][InfoNext]_vars

TypeOK ==
  /\ \A a \in Actors : strong[a] >= 0
  /\ \A c \in Callers : pc[c] \in {"idle", "aret", "reading", "waitlock", "locked", "sleeping"}
  /\ mut \in Callers \cup {""}
  /\ Len(stack) <= MaxDepth

\* ---- properties -------------------------------------------------------------

InQueue(i) == \E k \in 1..Len(queue) : queue[k] = i
OnStack(i) == \E k \in 1..Len(stack) : stack[k].id = i

\* the step issues call i of one of the kinds through a handle whose actor has
\* been destroyed
IssuedDead(i, kinds) ==
  /\ call[i].kind = "none"
  /\ call'[i].kind \in kinds
  /\ strong[call'[i].cb] = 0

\* a call on a destroyed actor changes nothing on the actor or executor side
\* and leaves the calling thread where it was
DeadNoEffect(i) ==
  /\ queue' = queue /\ stack' = stack
  /\ actorVars' = actorVars
  /\ pc' = pc /\ cur' = cur /\ mut' = mut
  /\ call'[i].runs = 0 /\ call'[i].actor = 0

\* no call that found its actor destroyed is ever queued or run
DeadNeverRuns ==
  \A i \in Ids : (call'[i].kind # "none" /\ call'[i].actor = 0)
                   => /\ call'[i].runs = 0
                      /\ ~call'[i].fin
                      /\ \A k \in 1..Len(queue') : queue'[k] # i
                      /\ \A m \in 1..Len(stack') : stack'[m].id # i

C3_CompleteBeforeReturn ==
  /\ \A i \in Ids :
       (call[i].kind \in {"sync", "sync_ret"} /\ call[i].actor # 0 /\ call[i].returned)
         => call[i].fin /\ call[i].done /\ call[i].runs = 1
  /\ \A i, j \in Ids :
       ( /\ i < j /\ call[i].kind = "sync" /\ call[j].kind = "sync_ret"
         /\ call[i].th = call[j].th /\ call[i].th \in Callers
         /\ call[i].actor # 0 /\ call[j].actor = call[i].actor
         /\ call[j].returned )
         => \/ call[j].rv = call[i].arg
            \/ \E k \in Ids \ {i, j} :
                 /\ call[k].kind \in {"async", "sync"}
                 /\ call[k].actor = call[i].actor /\ call[k].fin
                 /\ (k > i \/ call[k].th = Ex)
                 /\ call[k].arg = call[j].rv

\* a thread's sync_call stored 1 and its following blocking read returned 1
C3_Witness ==
  \E i, j \in Ids :
    /\ i < j /\ call[i].kind = "sync" /\ call[j].kind = "sync_ret"
    /\ call[i].th = call[j].th /\ call[i].th \in Callers
    /\ call[i].returned /\ call[j].returned
    /\ call[i].arg = 1 /\ call[j].rv = 1

\* thread c is inside aux::torrent_wait
Blocked(c) == pc[c] \in {"waitlock", "locked", "sleeping"}

\* C4: with the executor running its handlers, every blocking call that
\* calling threads have issued concurrently on the live actor returns; the
\* only thing that can keep a caller from returning is the termination of the
\* process by the assertion of another call, made on an expired handle.
C4_NoMissedWakeup ==
  \A c \in Callers : Blocked(c) ~> (pc[c] = "idle" \/ aborted)

\* two threads are in blocking calls at once: the handler of one has set its
\* done flag and notified, the other was woken although its handler has not run
C4_Witness ==
  \E c, d \in Callers :
    /\ c # d /\ pc[c] = "waitlock" /\ pc[d] = "waitlock"
    /\ call[cur[c]].done /\ ~call[cur[d]].done /\ call[cur[d]].runs = 0

\* C5: what sync_call_ret returns on a live actor is the value the method of
\* its own handler returned when it ran on the executor thread.
C5_OwnResult ==
  \A i \in Ids :
    (call[i].kind = "sync_ret" /\ call[i].actor # 0 /\ call[i].returned)
      => /\ call[i].runs = 1 /\ call[i].fin
         /\ call[i].xval \in Vals
         /\ call[i].rv = call[i].xval

\* queue_position() returned 1, the position a setter had stored before it,
\* and not its default
C5_Witness ==
  \E i \in Ids :
    /\ call[i].kind = "sync_ret" /\ call[i].actor # 0 /\ call[i].returned
    /\ call[i].def = QueuePosDefault /\ call[i].rv = 1

\* the calls that got a torrent from lock()
LiveCalls == {i \in Ids : call[i].kind # "none" /\ call[i].actor # 0}

\* C6: the method of every submitted handler is invoked exactly once: not
\* before the handler leaves the queue, once from then on, and the actor has
\* completed exactly as many invocations as handlers have finished.
C6_ExactlyOnce ==
  /\ \A i \in LiveCalls :
       /\ call[i].runs = (IF InQueue(i) THEN 0 ELSE 1)
       /\ (~InQueue(i) /\ ~OnStack(i)) => call[i].fin
  /\ \A a \in Actors :
       seen[a] = Cardinality({i \in LiveCalls : call[i].actor = a /\ call[i].fin})
  /\ (queue = <<>> /\ stack = <<>>)
       => \A a \in Actors :
            seen[a] = Cardinality({i \in LiveCalls : call[i].actor = a})

\* two async_calls from different threads have both been run: two invocations
C6_Witness ==
  \E i, j \in Ids :
    /\ i # j /\ call[i].kind = "async" /\ call[j].kind = "async"
    /\ call[i].th \in Callers /\ call[j].th \in Callers /\ call[i].th # call[j].th
    /\ call[i].actor # 0 /\ call[j].actor = call[i].actor
    /\ queue = <<>> /\ stack = <<>>
    /\ seen[call[i].actor] = 2

\* C7: from the submission of an async_call's handler until its method has
\* returned, the torrent is not destroyed.
C7_KeptAliveUntilRun ==
  \A i \in LiveCalls :
    (call[i].kind = "async" /\ ~call[i].fin)
      => Alive(call[i].actor) /\ strong[call[i].actor] > 0

\* a handler is queued, the session has removed the torrent, every handle is
\* gone and async_call has returned: the closure holds the only reference
C7_Witness ==
  \E i \in LiveCalls :
    /\ call[i].kind = "async" /\ InQueue(i) /\ call[i].returned
    /\ ~owner[call[i].actor]
    /\ \A h \in Handles : handle[h] = NoHandle
    /\ strong[call[i].actor] = 1

\* C8: once is_valid() or an upgrade of a handle has failed, is_valid() is
\* false and lock() gives nothing on that handle ever after.
C8_MonotonicValidity ==
  \A h \in Handles : seenInvalid[h] => (~is_valid(h) /\ lock(h) = 0)

\* a handle was seen invalid after a handler dispatched through it had kept
\* the torrent alive past its removal, and a later dispatch found it expired
C8_Witness ==
  \E h \in Handles, i, j \in Ids :
    /\ seenInvalid[h] /\ i < j
    /\ call[i].kind # "none" /\ call[i].actor = handle[h].cb /\ call[i].fin
    /\ destroyedOn[handle[h].cb] \in Callers
    /\ call[j].kind # "none" /\ call[j].cb = handle[h].cb /\ call[j].actor = 0

\* C9 as stated: the key of a handle never changes, handles to the same actor
\* have equal keys and handles to different actors have different keys,
\* whether or not the actors are alive.
C9_IdentityStable ==
  [][ /\ \A h \in Handles : handle'[h] = handle[h] => hash_value(h)' = hash_value(h)
      /\ \A h, g \in Handles :
           (handle'[h] # NoHandle /\ handle'[g] # NoHandle)
             => ((hash_value(h)' = hash_value(g)') <=> (handle'[h].cb = handle'[g].cb)) ]_vars

\* the executing methods
Running == {k \in 1..Len(stack) : stack[k].phase = "method"}

C11_SubmitterFifo ==
  \A i, j \in LiveCalls :
    (i < j /\ call[i].th = call[j].th /\ call[j].runs >= 1)
      => /\ call[i].runs >= 1
         /\ (call[i].th \in Callers => call[i].fin)

\* a calling thread made two fire-and-forget calls; the method of the first
\* has returned and the method of the second is executing
C11_Witness ==
  \E i, j \in LiveCalls :
    /\ i < j /\ call[i].th = call[j].th /\ call[i].th \in Callers
    /\ call[i].kind = "async" /\ call[j].kind = "async"
    /\ call[i].fin /\ OnStack(j) /\ ~call[j].fin

\* only the blocking calls put a thread into torrent_wait or a handler into
\* the signalling of a done flag
OnlyBlockingCallsWait ==
  /\ \A c \in Callers : Blocked(c) => call[cur[c]].kind \in {"sync", "sync_ret"}
  /\ \A k \in 1..Len(stack) :
       stack[k].phase # "method" => call[stack[k].id].kind \in {"sync", "sync_ret"}

Reentrant == {i \in LiveCalls : call[i].th = Ex /\ call[i].kind \in {"sync", "sync_ret"}}

C14_ArgumentSnapshot ==
  \A i \in LiveCalls :
    (call[i].kind = "async" /\ call[i].fin) => call[i].got = call[i].arg

\* the actors some calling thread holds a shared_ptr from native_handle() to
Held == {native[c] : c \in Callers} \ {0}

\* C15: native_handle() gives a strong reference to the actor if the actor is
\* alive at the call and null otherwise; as long as a caller holds a non-null
\* result the actor is not destroyed, is_valid() is true on its handles, and
\* a dispatch through such a handle takes the live path.
C15_NativeHandleKeepsAlive ==
  [][ /\ \A c \in Callers, h \in Handles :
           native_handle(c, h)
             => native'[c] = (IF strong[handle[h].cb] > 0 THEN handle[h].cb ELSE 0)
      /\ \A a \in Held' :
           /\ Alive(a)' /\ strong'[a] > 0
           /\ \A h \in Handles : handle'[h].cb = a => is_valid(h)' /\ lock(h)' = a
      /\ \A i \in Ids :
           (call[i].kind = "none" /\ call'[i].kind # "none" /\ call'[i].cb \in Held)
             => call'[i].actor = call'[i].cb /\ ~aborted' ]_vars

\* a thread holds the result of native_handle() as the only reference left
\* but those of a dispatch in progress: the session has removed the torrent,
\* and an async_call through the handle has queued its handler
C15_Witness ==
  \E c \in Callers, i \in LiveCalls :
    /\ native[c] # 0 /\ ~owner[native[c]]
    /\ call[i].actor = native[c] /\ InQueue(i) /\ ~call[i].returned
    /\ strong[native[c]] = 3

\* the accesses to an actor's state in progress: the methods executing in
\* handlers, and the reads a handle operation makes on its own thread
Accesses ==
  {[th |-> Ex, actor |-> call[stack[k].id].actor] : k \in Running}
    \cup {[th |-> c, actor |-> call[cur[c]].actor] : c \in {d \in Callers : pc[d] = "reading"}}

\* a calling thread is reading an actor whose method the executor is running
OverlapsTask ==
  \E x, y \in Accesses : x.actor = y.actor /\ x.th \in Callers /\ y.th = Ex

\* C16: every access of a handle operation to a live actor's state is made
\* by a task on the executor thread, info_hash and file_status included; no
\* calling thread accesses the actor, so no access overlaps a running task.
C16_AccessOnlyInTasks ==
  /\ \A x \in Accesses : x.th = Ex
  /\ ~OverlapsTask

\* the calls made with sync_call or sync_call_ret that got a torrent
BlockingCalls == {i \in LiveCalls : call[i].kind \in {"sync", "sync_ret"}}

\* C17: in sync_call and sync_call_ret the handler finishes the method and
\* the write of r while done is still false, sets done only when no other
\* thread holds ses.mut, and changes neither done nor r once the caller has
\* returned; the caller returns only with done set and takes the r the
\* handler wrote.
C17_NoUseOfReturnedFrame ==
  [][ \A i \in BlockingCalls :
        /\ (call'[i].fin # call[i].fin \/ call'[i].r # call[i].r)
             => ~call[i].done /\ ~call'[i].done /\ ~call[i].returned
        /\ (call'[i].done # call[i].done)
             => call[i].fin /\ mut = "" /\ mut' = "" /\ ~call[i].returned
        /\ (call'[i].returned /\ ~call[i].returned)
             => call[i].fin /\ call[i].done /\ call'[i].rv = call[i].r
        /\ call[i].returned
             => call'[i].r = call[i].r /\ call'[i].done = call[i].done ]_vars

\* queue_position() has returned the method's result to a calling thread
\* while its handler, which has set done, is not yet destroyed
C17_Witness ==
  \E i \in BlockingCalls :
    /\ call[i].kind = "sync_ret" /\ call[i].th \in Callers
    /\ call[i].returned /\ call[i].rv = call[i].xval
    /\ OnStack(i) /\ Top.phase = "end"

\* C18: whatever the interleaving of async_call, sync_call and sync_call_ret
\* with the session's release of the torrent, the last shared_ptr to a torrent
\* is released on the executor thread: no calling thread runs ~torrent.
C18_DestroyedOnExecutorOnly == \A a \in Actors : destroyedOn[a] \notin Callers

\* the torrent_info objects that some shared_ptr still owns
OwnedInfos ==
  ({tinfo} \cup {holder[k] : k \in Slots} \cup {r[c] : c \in Callers}) \ {0}

\* C19: whenever no thread is inside the critical section of get_torrent_info,
\* cursor is in 0..3; the slots of holder, going back from cursor, hold the
\* results of the latest four calls in the order in which the calls took
\* holder_mutex, so the torrent_info of each of them is still owned.
C19_HolderKeepsLastFour ==
  /\ holder_mutex = "" => cursor \in Slots
  /\ cursor \in 0..HolderSize
  /\ \A k \in 1..Len(recent) :
       /\ holder[(cursor - k) % HolderSize] = recent[Len(recent) + 1 - k]
       /\ recent[k] # 0 => recent[k] \in OwnedInfos

\* more than four results have been stored, cursor has wrapped around, and
\* holder owns a torrent_info that the torrent itself has given up, while one
\* thread is in the critical section and another waits for holder_mutex
C19_Witness ==
  /\ Len(recent) = HolderSize /\ cursor = 1
  /\ \E k \in Slots : holder[k] # 0 /\ holder[k] # tinfo
  /\ \E c, d \in Callers : gpc[c] = "wrapped" /\ gpc[d] = "have_r" /\ r[d] # r[c]

====
